---------------------------- MODULE Spec2Model ----------------------------
(***************************************************************************)
(* Salesforce CPQ Toolkit: the session-token relay and REST client core.   *)
(*                                                                         *)
(*   tools/sfdc-api.js     SalesforceAPI (request, query, toolingQuery),   *)
(*                         normalizeToMyDomain, formatFieldType            *)
(*   background worker     onMessage listener, handleProxyRequest,         *)
(*                         getSessionCookie, normalizeToMyDomain           *)
(*                                                                         *)
(* Strings are sequences of tokens.  A token is a piece of text that the   *)
(* code never looks inside: a scheme ("https://"), a host label ("acme"),  *)
(* a dotted host suffix (".lightning.force.com"), a path piece ("/query"). *)
(* Concatenation is \o, endsWith/startsWith/replace work on tokens.        *)
(***************************************************************************)
EXTENDS Integers, Sequences, FiniteSets, TLC

VARIABLES
    \* ---- Domain Normalizer harness
    nUrl,       \* the input string
    nOut,       \* normalizeToMyDomain(nUrl)
    nTwice,     \* normalizeToMyDomain(nOut)
    nPc,        \* "start" | "once" | "twice"
    \* ---- Credential Locator harness
    cStore,     \* the browser's cookie jar: a sequence of cookies
    cDomain,    \* the hostname getSessionCookie is called with
    cFail,      \* which cookie-store calls reject: <<get#1, get#2, getAll>>
    cCalls,     \* the cookie-store calls issued, in order
    cRet,       \* what getSessionCookie returned
    cThrew,     \* whether getSessionCookie rejected instead of returning
    cPc,        \* "start" | "done"
    \* ---- the relay: tool page, background worker, browser, org
    orgOrigin,  \* SalesforceAPI.orgOrigin of the tool page
    cookieJar,  \* the browser's cookie jar
    chain,      \* the pages the org serves for the query, in order
    worker,     \* "up" | "down": whether the worker's listener can be reached
    req,        \* per request, the page side: the message and the promise
    srv,        \* per request, the worker side: handler position, fetch, sendResponse calls, port
    sink,       \* what the worker wrote to a log or to extension storage
    query,      \* the query()/toolingQuery() call of the tool page
    \* ---- the tool pages
    fmt,        \* formatFieldType: its arguments and its result
    scan,       \* a batch of a tool page: runScan or buildQuotePreview
    tab,        \* a tool page from its load on: org parameter, api, controls
    twins,      \* computeTwinPairs: the two describes and the pairs
    ctl,        \* the Twin Field Explorer's scan: controls and scans in flight
    build,      \* the SKU Quote Explorer's builds in flight and what is shown
    quote       \* the quote lines under the user's edits

normVars   == <<nUrl, nOut, nTwice, nPc>>
cookieVars == <<cStore, cDomain, cFail, cCalls, cRet, cThrew, cPc>>
relayVars  == <<orgOrigin, cookieJar, chain, worker, req, srv, sink, query>>
pageVars   == <<twins, ctl, build, quote>>
toolVars   == <<fmt, scan, tab, pageVars>>
vars       == <<normVars, cookieVars, relayVars, toolVars>>

Null == "<null>"

-----------------------------------------------------------------------------
(* Bounds *)

\* longest input string of the normalizer harness, in tokens
MaxUrlLen == 4
\* most cookies in the jar
MaxCookies == 2
\* most relay requests in flight at one time
MaxReqs == 2
\* most pages the org serves for one query
MaxPages == 2
\* most elements of an error array in a response body
MaxMsgs == 2
\* most user events on the controls of a tool page
MaxEvents == 3
\* most fields in a describe result
MaxFields == 2
\* most scans and exports of one Twin Field Explorer page
MaxScans == 4
\* most user events on the SKU Quote Explorer page
MaxClicks == 4
\* most pricebook entries of a build, and most edits of its quote lines
MaxLines == 2
MaxEdits == 3

-----------------------------------------------------------------------------
(* Tokens *)

Scheme    == "https://"
Lightning == ".lightning.force.com"
MyDomain  == ".my.salesforce.com"
Slash     == "/"

HostLabels == {"acme", "Acme"}
HostDots   == {Lightning, MyDomain, ".evil.com"}
HostToks   == HostLabels \cup HostDots
PathToks   == {Slash, "/query", "/services/data/v59.0", "/query/?q=SOQL",
               "/tooling/query/?q=SOQL", "/cursor-2", "/cursor-3", "/cursor-4",
               "/sobjects/X/describe"}

\* the URL parser lower-cases the host
Lower(tok) == IF tok = "Acme" THEN "acme" ELSE tok

LowerAll(s) == [i \in 1..Len(s) |-> Lower(s[i])]

\* String.prototype.endsWith
EndsWith(s, tok) == Len(s) > 0 /\ s[Len(s)] = tok

\* String.prototype.replace(pattern: string, by): the FIRST occurrence only
ReplaceFirst(s, tok, by) ==
    IF \E i \in 1..Len(s) : s[i] = tok
    THEN LET i == CHOOSE k \in 1..Len(s) :
                      s[k] = tok /\ \A j \in 1..(k - 1) : s[j] # tok
         IN  [s EXCEPT ![i] = by]
    ELSE s

-----------------------------------------------------------------------------
(* new URL(s): scheme, then the host (the longest run of host tokens), then *)
(* the path.  It throws on anything that is not an absolute URL.            *)

HostEnd(s) ==
    IF Len(s) >= 2 /\ \E i \in 2..Len(s) : s[i] \notin HostToks
    THEN (CHOOSE i \in 2..Len(s) :
              s[i] \notin HostToks /\ \A j \in 2..(i - 1) : s[j] \in HostToks) - 1
    ELSE Len(s)

CanParse(s) ==
    /\ Len(s) >= 2
    /\ s[1] = Scheme
    /\ s[2] \in HostLabels
    /\ \A i \in (HostEnd(s) + 1)..Len(s) : s[i] \in PathToks

ParseURL(s) ==
    [hostname |-> LowerAll(SubSeq(s, 2, HostEnd(s))),
     pathname |-> IF HostEnd(s) = Len(s) THEN <<Slash>>
                  ELSE SubSeq(s, HostEnd(s) + 1, Len(s))]

\* URL.prototype.toString
UrlToString(u) == <<Scheme>> \o u.hostname \o u.pathname

-----------------------------------------------------------------------------
\* a normalizer that parses and serializes but rewrites no suffix
normalizeNoRewrite(url) ==
    IF ~CanParse(url) THEN url ELSE UrlToString(ParseURL(url))


(* normalizeToMyDomain, tools/sfdc-api.js *)

normalizeToMyDomain(url) ==
    IF ~CanParse(url) THEN url
    ELSE LET u == ParseURL(url)
         IN  IF EndsWith(u.hostname, Lightning)
             THEN UrlToString([u EXCEPT
                      !.hostname = ReplaceFirst(u.hostname, Lightning, MyDomain)])
             ELSE UrlToString(u)

(* normalizeToMyDomain, background worker *)

bgNormalizeToMyDomain(url) ==
    IF ~CanParse(url) THEN url
    ELSE LET u    == ParseURL(url)
             host == u.hostname
         IN  IF EndsWith(host, Lightning)
             THEN UrlToString([u EXCEPT
                      !.hostname = ReplaceFirst(host, Lightning, MyDomain)])
             ELSE UrlToString(u)

-----------------------------------------------------------------------------
(* JSON values, as far as the code looks into them: the records and the     *)
(* nextRecordsUrl of a query page, the message of an error object, the      *)
(* messages of an array of error objects.  An absent field is the empty     *)
(* sequence.  Messages are strings, so sequences of tokens.                 *)

JNull   == [kind |-> "null", records |-> <<>>, next |-> <<>>, messages |-> <<>>]
JObject == [kind |-> "object", records |-> <<>>, next |-> <<>>, messages |-> <<>>]

ReqIds == 1..MaxReqs

FreeReq == [st |-> "free", path |-> <<>>, url |-> <<>>, method |-> "", page |-> 0,
            data |-> JNull, error |-> <<>>, settles |-> 0]
\* no response yet
NoResp == [status |-> 0, json |-> FALSE, body |-> JNull]

\* one run of the listener: where handleProxyRequest stands, how the
\* cookie-store calls of its getSessionCookie went, the fetch it issued, the
\* response the fetch got, the sendResponse calls made, the message port
FreeSrv == [pc |-> "none", fail |-> <<FALSE, FALSE, FALSE>>, fetch |-> <<>>,
            resp |-> NoResp, sends |-> <<>>, port |-> "none"]
IdleQuery == [pc |-> "idle", kind |-> "", records |-> <<>>, req |-> 0,
              issued |-> 0, error |-> <<>>, returned |-> FALSE]

RelayIdle ==
    /\ orgOrigin = <<>> /\ cookieJar = <<>> /\ chain = <<>> /\ worker = "off"
    /\ req = [r \in ReqIds |-> FreeReq]
    /\ srv = [r \in ReqIds |-> FreeSrv]
    /\ sink = {} /\ query = IdleQuery

\* a type code left out of a call; a number left out is <<>>, given is <<n>>
Undefined == "<undefined>"
NoNumber == <<>>

FmtIdle == fmt = [pc |-> "idle", type |-> Undefined, length |-> NoNumber,
                  precision |-> NoNumber, scale |-> NoNumber, out |-> <<>>]
\* no batch under way: nothing issued, nothing settled, nothing shown
ScanIdle == scan = [tool |-> "none", fails |-> {}, pc |-> "idle", issued |-> {},
                    got |-> <<>>, shown |-> "empty", lines |-> <<>>]
\* no SalesforceAPI: the `api = null` of the tool pages
NoApi == [made |-> FALSE, orgOrigin |-> <<>>]

\* no tool page open
PageIdle == tab = [tool |-> "none", org |-> [present |-> FALSE, value |-> <<>>],
                    pc |-> "closed", api |-> NoApi, shown |-> "none",
                    handlers |-> {}, sent |-> <<>>, events |-> <<>>]
\* computeTwinPairs not called
TwinsIdle == twins = [pc |-> "idle", ql |-> <<>>, oli |-> <<>>, pairs |-> <<>>]
\* no Twin Field Explorer scan
CtlIdle == ctl = [pc |-> "closed"]
\* no SKU Quote Explorer build
BuildIdle == build = [pc |-> "closed"]
\* no quote lines
QuoteIdle == quote = [pc |-> "closed"]
ToolIdle == FmtIdle /\ ScanIdle /\ PageIdle /\ TwinsIdle /\ CtlIdle /\ BuildIdle /\ QuoteIdle

-----------------------------------------------------------------------------
(* Domain Normalizer harness: normalize an input, then normalize the result *)

NormAlphabet == {Scheme, "acme", "Acme", Lightning, MyDomain, Slash, "/query"}

RECURSIVE SeqsUpTo(_, _)
SeqsUpTo(S, n) ==
    IF n = 0 THEN {<<>>}
    ELSE LET shorter == SeqsUpTo(S, n - 1)
         IN  shorter \cup {Append(s, x) : s \in {t \in shorter : Len(t) = n - 1}, x \in S}

\* the scheme occurs only in front
NormInputs ==
    {s \in SeqsUpTo(NormAlphabet, MaxUrlLen) : \A i \in 2..Len(s) : s[i] # Scheme}

NormIdle ==
    /\ nUrl = <<>> /\ nOut = <<>> /\ nTwice = <<>> /\ nPc = "off"

NormInit ==
    /\ nUrl \in NormInputs
    /\ nOut = <<>>
    /\ nTwice = <<>>
    /\ nPc = "start"

Normalize ==
    /\ nPc = "start"
    /\ nOut' = normalizeToMyDomain(nUrl)
    /\ nPc' = "once"
    /\ UNCHANGED <<nUrl, nTwice, cookieVars, relayVars, toolVars>>

NormalizeAgain ==
    /\ nPc = "once"
    /\ nTwice' = normalizeToMyDomain(nOut)
    /\ nPc' = "twice"
    /\ UNCHANGED <<nUrl, nOut, cookieVars, relayVars, toolVars>>

CookieIdle ==
    /\ cStore = <<>> /\ cDomain = <<>> /\ cFail = <<>> /\ cCalls = <<>>
    /\ cRet = Null /\ cThrew = FALSE /\ cPc = "off"

InitNorm == NormInit /\ CookieIdle /\ RelayIdle /\ ToolIdle
NextNorm == Normalize \/ NormalizeAgain
SpecNorm == InitNorm /\ [][NextNorm]_vars

-----------------------------------------------------------------------------
(* The browser's cookie jar, as chrome.cookies reads it.  A cookie is       *)
(* [domain, name, value]; a domain that starts with a dotted token is a     *)
(* domain cookie (sent to every host under it), any other a host-only one.  *)
(* The jar keeps creation order.                                            *)

SidName == "sid"

IsSuffix(d, h) ==
    Len(d) <= Len(h) /\ SubSeq(h, Len(h) - Len(d) + 1, Len(h)) = d

\* the cookie is sent to host h: a host-only cookie of h, a domain cookie
\* of h (".h"), or a domain cookie of a parent domain of h
DomainMatch(d, h) ==
    \/ d = h
    \/ d = <<".">> \o h
    \/ Len(d) > 0 /\ d[1] \in HostDots /\ Len(d) < Len(h) /\ IsSuffix(d, h)

\* chrome.cookies.get({url, name}): the cookie sent to that URL under that
\* name, the earliest created when there are several; <<>> when there is none
CookiesGet(jar, url, name) ==
    LET host == ParseURL(url).hostname
        Hit(c) == c.name = name /\ DomainMatch(c.domain, host)
        hits == SelectSeq(jar, Hit)
    IN  IF hits = <<>> THEN <<>> ELSE <<hits[1]>>

\* chrome.cookies.getAll({domain, name}): every cookie of that name whose
\* domain is the given one, with or without a leading dot (cookies of a
\* parent domain are not among them)
CookiesGetAll(jar, domain, name) ==
    LET Hit(c) == c.name = name /\ (c.domain = domain \/ c.domain = <<".">> \o domain)
    IN  SelectSeq(jar, Hit)

-----------------------------------------------------------------------------
(* getSessionCookie, background worker.  fail[i] says whether the i-th      *)
(* cookie-store call of a run rejects.  The result is what the function     *)
(* returned, whether it threw, and the calls it issued.                     *)

GetCall(url)      == [api |-> "get", target |-> url, name |-> SidName]
GetAllCall(domain) == [api |-> "getAll", target |-> domain, name |-> SidName]

domainsToTry(domain) == <<domain, <<".">> \o domain>>

\* one pass of the for loop: the lookup is made with `domain`, whatever d is
TryGet(jar, fail, domain, d, i) ==
    LET url    == <<Scheme>> \o domain
        cookie == IF fail[i] \/ ~CanParse(url) THEN <<>>
                  ELSE CookiesGet(jar, url, SidName)
    IN  [call  |-> GetCall(url),
         found |-> cookie # <<>> /\ cookie[1].value # "",
         value |-> IF cookie = <<>> THEN Null ELSE cookie[1].value]

\* the broad search after the loop
TryGetAll(jar, fail, domain) ==
    LET allCookies == IF fail[3] THEN <<>>
                      ELSE CookiesGetAll(jar, domain, SidName)
    IN  [call  |-> GetAllCall(domain),
         found |-> Len(allCookies) > 0,
         value |-> IF Len(allCookies) > 0 THEN allCookies[1].value ELSE Null]

\* getSessionCookie without its try/catch: a rejected cookie-store call
\* rejects the whole lookup
getSessionCookieNoCatch(jar, fail, domain) ==
    LET ds == domainsToTry(domain)
        a  == TryGet(jar, fail, domain, ds[1], 1)
        b  == TryGet(jar, fail, domain, ds[2], 2)
        c  == TryGetAll(jar, fail, domain)
    IN  IF fail[1] THEN [ret |-> Null, threw |-> TRUE, calls |-> <<a.call>>]
        ELSE IF a.found THEN [ret |-> a.value, threw |-> FALSE, calls |-> <<a.call>>]
        ELSE IF fail[2]
             THEN [ret |-> Null, threw |-> TRUE, calls |-> <<a.call, b.call>>]
        ELSE IF b.found
             THEN [ret |-> b.value, threw |-> FALSE, calls |-> <<a.call, b.call>>]
        ELSE [ret |-> IF c.found THEN c.value ELSE Null, threw |-> fail[3],
              calls |-> <<a.call, b.call, c.call>>]

getSessionCookie(jar, fail, domain) ==
    LET ds == domainsToTry(domain)
        a  == TryGet(jar, fail, domain, ds[1], 1)
        b  == TryGet(jar, fail, domain, ds[2], 2)
        c  == TryGetAll(jar, fail, domain)
    IN  IF a.found THEN [ret |-> a.value, threw |-> FALSE, calls |-> <<a.call>>]
        ELSE IF b.found
             THEN [ret |-> b.value, threw |-> FALSE, calls |-> <<a.call, b.call>>]
        ELSE IF c.found
             THEN [ret |-> c.value, threw |-> FALSE,
                   calls |-> <<a.call, b.call, c.call>>]
        ELSE [ret |-> Null, threw |-> FALSE, calls |-> <<a.call, b.call, c.call>>]

-----------------------------------------------------------------------------
(* Credential Locator harness: one run of getSessionCookie on a jar *)

AcmeHost == <<"acme", MyDomain>>
EvilHost == <<"acme", ".evil.com">>

CookieDomains == {AcmeHost, <<".">> \o AcmeHost, <<MyDomain>>, EvilHost}
CookieValues  == {"", "00Dabc", "00Dxyz"}
Cookies ==
    [domain : CookieDomains, name : {SidName, "oid"}, value : CookieValues]

Jars == SeqsUpTo(Cookies, MaxCookies)

CookieInit ==
    /\ cStore \in Jars
    /\ cDomain \in {AcmeHost, EvilHost}
    /\ cFail \in [1..3 -> BOOLEAN]
    /\ cCalls = <<>>
    /\ cRet = Null
    /\ cThrew = FALSE
    /\ cPc = "start"

GetSessionCookie ==
    /\ cPc = "start"
    /\ LET r == getSessionCookie(cStore, cFail, cDomain)
       IN  /\ cCalls' = r.calls
           /\ cRet' = r.ret
           /\ cThrew' = r.threw
    /\ cPc' = "done"
    /\ UNCHANGED <<cStore, cDomain, cFail, normVars, relayVars, toolVars>>

InitCookie == CookieInit /\ NormIdle /\ RelayIdle /\ ToolIdle
NextCookie == GetSessionCookie
SpecCookie == InitCookie /\ [][NextCookie]_vars

-----------------------------------------------------------------------------
(* SalesforceAPI, tools/sfdc-api.js *)

ApiBase == "/services/data/v59.0"

\* orgOrigin.replace(/\/$/, "")
StripTrailingSlash(str) ==
    IF EndsWith(str, Slash) THEN SubSeq(str, 1, Len(str) - 1) ELSE str

\* constructor: this.orgOrigin
NewOrgOrigin(org) == normalizeToMyDomain(StripTrailingSlash(org))

baseUrl(origin) == origin \o <<ApiBase>>

\* a relative path whose text begins with the letters "http"
HttpNamedPath == "https-callouts/list"

\* path.startsWith("http"): the test is on the letters, not on a scheme
StartsWithHttp(path) == Len(path) > 0 /\ path[1] \in {Scheme, HttpNamedPath}

\* request(): the message handed to chrome.runtime.sendMessage
RequestPayload(origin, path, method) ==
    [url    |-> IF StartsWithHttp(path) THEN path ELSE baseUrl(origin) \o path,
     method |-> IF method = "" THEN "GET" ELSE method,
     body   |-> Null]

QueryPath == <<"/query/?q=SOQL">>
ToolingQueryUrl(origin) == origin \o <<ApiBase>> \o <<"/tooling/query/?q=SOQL">>
DescribePath == <<"/sobjects/X/describe">>

(* chrome.runtime.lastError.message *)
NoReceiverMsg == <<"Could not establish connection. Receiving end does not exist.">>
PortClosedMsg == <<"The message port closed before a response was received.">>

NoResponseMsg == <<"No response from background worker.">>
UnknownErrorMsg == <<"Unknown error">>

\* the callback returning on lastError without rejecting
RequestCallbackDropsLastError(lastError, responses) ==
    IF lastError # <<>> THEN <<>>
    ELSE IF responses = <<>>
    THEN <<[how |-> "reject", data |-> JNull, error |-> NoResponseMsg]>>
    ELSE IF ~responses[1].success
    THEN <<[how |-> "reject", data |-> JNull,
            error |-> IF responses[1].error = <<>> THEN UnknownErrorMsg
                      ELSE responses[1].error]>>
    ELSE <<[how |-> "resolve", data |-> responses[1].data, error |-> <<>>]>>

\* request(): the sendMessage callback as it returns at the first reject: one
\* settlement of the promise
RequestCallback(lastError, responses) ==
    IF lastError # <<>>
    THEN <<[how |-> "reject", data |-> JNull, error |-> lastError]>>
    ELSE IF responses = <<>>
    THEN <<[how |-> "reject", data |-> JNull, error |-> NoResponseMsg]>>
    ELSE IF ~responses[1].success
    THEN <<[how |-> "reject", data |-> JNull,
            error |-> IF responses[1].error = <<>> THEN UnknownErrorMsg
                      ELSE responses[1].error]>>
    ELSE <<[how |-> "resolve", data |-> responses[1].data, error |-> <<>>]>>

\* the page put in front of what was collected
ConcatRecordsInFront(records, page) == page.records \o records

\* query(): records.concat(page.records || [])
ConcatRecords(records, page) == records \o page.records

NullRecordsMsg == <<"Cannot read properties of null (reading 'records')">>

-----------------------------------------------------------------------------
(* background worker *)

CookieMissingMsg ==
    <<"Could not find Salesforce session cookie. Please make sure you are logged in to Salesforce and try again.">>
UnauthorizedMsg ==
    <<"Unauthorized. Your Salesforce session may have expired. Please log in again.">>
InvalidUrlMsg  == <<"Failed to construct 'URL': Invalid URL">>
FetchFailedMsg == <<"Failed to fetch">>
BadJsonMsg     == <<"Unexpected token < in JSON at position 0">>

\* `HTTP ${response.status}`
HttpStatusMsg(status) == <<"HTTP ", ToString(status)>>

\* errJson.map((e) => e.message).join(", ")
RECURSIVE JoinMessages(_)
JoinMessages(ms) ==
    IF ms = <<>> THEN <<>>
    ELSE IF Len(ms) = 1 THEN ms[1]
    ELSE ms[1] \o <<", ">> \o JoinMessages(Tail(ms))

\* isSalesforceUrl: defined in the worker, called nowhere in it
isSalesforceUrl(url) ==
    /\ CanParse(url)
    /\ LET host == ParseURL(url).hostname
       IN  \E i \in 1..Len(host) : host[i] \in {MyDomain, Lightning}

\* a handler that always reads the cookie of the org's own host
HandlerStartOrgCookie(payload, jarNow, fail) ==
    LET myDomainUrl == bgNormalizeToMyDomain(payload.url)
    IN  IF ~CanParse(myDomainUrl)
        THEN [throws |-> TRUE, error |-> InvalidUrlMsg, fetch |-> <<>>]
        ELSE LET cookieDomain == <<"acme", MyDomain>>
                 sid == getSessionCookie(jarNow, fail, cookieDomain).ret
             IN  IF sid = Null \/ sid = ""
                 THEN [throws |-> TRUE, error |-> CookieMissingMsg, fetch |-> <<>>]
                 ELSE [throws |-> FALSE, error |-> <<>>,
                       fetch |-> <<[url    |-> myDomainUrl,
                                    method |-> IF payload.method = "" THEN "GET"
                                               ELSE payload.method,
                                    authorization |-> <<"Bearer ", sid>>,
                                    cookieDomain |-> cookieDomain]>>]

\* a handler that goes on to the fetch without testing sid
HandlerStartNoSidTest(payload, jarNow, fail) ==
    LET myDomainUrl == bgNormalizeToMyDomain(payload.url)
    IN  IF ~CanParse(myDomainUrl)
        THEN [throws |-> TRUE, error |-> InvalidUrlMsg, fetch |-> <<>>]
        ELSE LET cookieDomain == ParseURL(myDomainUrl).hostname
                 sid == getSessionCookie(jarNow, fail, cookieDomain).ret
             IN  [throws |-> FALSE, error |-> <<>>,
                  fetch |-> <<[url    |-> myDomainUrl,
                               method |-> IF payload.method = "" THEN "GET"
                                          ELSE payload.method,
                               authorization |-> <<"Bearer ", sid>>,
                               cookieDomain |-> cookieDomain]>>]

\* handleProxyRequest up to the fetch: either it throws, or it issues the
\* one network call
HandlerStart(payload, jarNow, fail) ==
    LET myDomainUrl == bgNormalizeToMyDomain(payload.url)
    IN  IF ~CanParse(myDomainUrl)
        THEN [throws |-> TRUE, error |-> InvalidUrlMsg, fetch |-> <<>>]
        ELSE LET cookieDomain == ParseURL(myDomainUrl).hostname
                 sid == getSessionCookie(jarNow, fail, cookieDomain).ret
             IN  IF sid = Null \/ sid = ""
                 THEN [throws |-> TRUE, error |-> CookieMissingMsg, fetch |-> <<>>]
                 ELSE [throws |-> FALSE, error |-> <<>>,
                       fetch |-> <<[url    |-> myDomainUrl,
                                    method |-> IF payload.method = "" THEN "GET"
                                               ELSE payload.method,
                                    authorization |-> <<"Bearer ", sid>>,
                                    cookieDomain |-> cookieDomain]>>]

\* a handler without the `response.status === 401` test
HandlerFinishNo401(resp) ==
    IF ~(resp.status >= 200 /\ resp.status <= 299)
    THEN [ok |-> FALSE, data |-> JNull,
          error |-> IF ~resp.json \/ resp.body.kind = "null"
                    THEN HttpStatusMsg(resp.status)
                    ELSE IF resp.body.kind = "array"
                    THEN JoinMessages(resp.body.messages)
                    ELSE IF resp.body.messages = <<>> \/ resp.body.messages[1] = <<>>
                    THEN HttpStatusMsg(resp.status)
                    ELSE resp.body.messages[1]]
    ELSE IF resp.status = 204
    THEN [ok |-> TRUE, data |-> JNull, error |-> <<>>]
    ELSE IF ~resp.json
    THEN [ok |-> FALSE, data |-> JNull, error |-> BadJsonMsg]
    ELSE [ok |-> TRUE, data |-> resp.body, error |-> <<>>]

\* a handler without the `response.status === 204` test
HandlerFinishNo204(resp) ==
    IF resp.status = 401
    THEN [ok |-> FALSE, data |-> JNull, error |-> UnauthorizedMsg]
    ELSE IF ~(resp.status >= 200 /\ resp.status <= 299)
    THEN [ok |-> FALSE, data |-> JNull,
          error |-> IF ~resp.json \/ resp.body.kind = "null"
                    THEN HttpStatusMsg(resp.status)
                    ELSE IF resp.body.kind = "array"
                    THEN JoinMessages(resp.body.messages)
                    ELSE IF resp.body.messages = <<>> \/ resp.body.messages[1] = <<>>
                    THEN HttpStatusMsg(resp.status)
                    ELSE resp.body.messages[1]]
    ELSE IF ~resp.json
    THEN [ok |-> FALSE, data |-> JNull, error |-> BadJsonMsg]
    ELSE [ok |-> TRUE, data |-> resp.body, error |-> <<>>]

\* handleProxyRequest from the response on.  A response is
\* [status, json (whether the body parses as JSON), body]
HandlerFinish(resp) ==
    IF resp.status = 401
    THEN [ok |-> FALSE, data |-> JNull, error |-> UnauthorizedMsg]
    ELSE IF ~(resp.status >= 200 /\ resp.status <= 299)
    THEN [ok |-> FALSE, data |-> JNull,
          error |-> IF ~resp.json \/ resp.body.kind = "null"
                    THEN HttpStatusMsg(resp.status)
                    ELSE IF resp.body.kind = "array"
                    THEN JoinMessages(resp.body.messages)
                    ELSE IF resp.body.messages = <<>> \/ resp.body.messages[1] = <<>>
                    THEN HttpStatusMsg(resp.status)
                    ELSE resp.body.messages[1]]
    ELSE IF resp.status = 204
    THEN [ok |-> TRUE, data |-> JNull, error |-> <<>>]
    ELSE IF ~resp.json
    THEN [ok |-> FALSE, data |-> JNull, error |-> BadJsonMsg]
    ELSE [ok |-> TRUE, data |-> resp.body, error |-> <<>>]

\* a listener that answers in .then and again in a .finally
ListenerReplyTwice(outcome) ==
    IF outcome.ok
    THEN <<[success |-> TRUE, data |-> outcome.data, error |-> <<>>],
           [success |-> FALSE, data |-> JNull, error |-> <<>>]>>
    ELSE <<[success |-> FALSE, data |-> JNull, error |-> outcome.error]>>

\* the listener's .then(...).catch(...): the sendResponse calls it makes for
\* a settled handleProxyRequest
ListenerReply(outcome) ==
    IF outcome.ok
    THEN <<[success |-> TRUE, data |-> outcome.data, error |-> <<>>]>>
    ELSE <<[success |-> FALSE, data |-> JNull, error |-> outcome.error]>>

-----------------------------------------------------------------------------
(* The relay: a tool page calls request()/query(), chrome.runtime carries   *)
(* the message to the worker's listener and the response back, the worker   *)
(* reads the cookie jar and calls the org.                                  *)

OrgParams == {<<Scheme, "acme", Lightning>>, <<Scheme, "acme", MyDomain, Slash>>}

RelayJars ==
    {<<>>,
     <<[domain |-> <<MyDomain>>, name |-> SidName, value |-> "00Dabc"],
       [domain |-> EvilHost, name |-> SidName, value |-> "3v1l"]>>}

\* the credentials the jar holds
Credentials == {"00Dabc", "3v1l"}

\* the cookie-store calls of one handler run: all answer, or all reject
RelayCookieFails == {<<FALSE, FALSE, FALSE>>, <<TRUE, TRUE, TRUE>>}

Cursor(k) ==
    CASE k = 2 -> "/cursor-2" [] k = 3 -> "/cursor-3" [] OTHER -> "/cursor-4"

\* the forms in which the org may express a nextRecordsUrl
NextUrl(form, k) ==
    CASE form = "absolute"  -> <<Scheme, "acme", MyDomain, ApiBase, Cursor(k)>>
      [] form = "lightning" -> <<Scheme, "acme", Lightning, ApiBase, Cursor(k)>>
      [] OTHER              -> <<ApiBase, Cursor(k)>>

NextUrlForms == {"absolute", "lightning", "relative"}

\* page k holds records of its own: two on an odd page, one on an even page
PageRecords(k) ==
    IF k % 2 = 1 THEN <<10 * k + 1, 10 * k + 2>> ELSE <<10 * k + 1>>

\* every page but the last carries a nextRecordsUrl
Chains ==
    {[k \in 1..n |-> [records |-> PageRecords(k),
                      next |-> IF k < n THEN NextUrl(form, k + 1) ELSE <<>>]] :
        n \in 1..MaxPages, form \in NextUrlForms}

RelayInit ==
    /\ \E org \in OrgParams : orgOrigin = NewOrgOrigin(org)
    /\ cookieJar \in RelayJars
    /\ worker = "up"
    /\ req = [r \in ReqIds |-> FreeReq]
    /\ srv = [r \in ReqIds |-> FreeSrv]
    /\ sink = {}
    /\ query = IdleQuery

HasFreeReq == \E r \in ReqIds : req[r].st = "free"
NextReq == CHOOSE r \in ReqIds : req[r].st = "free" /\ \A x \in 1..(r - 1) : req[x].st # "free"

\* chrome.runtime.sendMessage: the message goes to the listener, or, when
\* no listener can be reached, the callback is owed a lastError
SentReq(r, path, page) ==
    LET payload == RequestPayload(orgOrigin, path, "")
    IN  [req EXCEPT ![r] = [st |-> "pending", path |-> path, url |-> payload.url,
                            method |-> payload.method, page |-> page,
                            data |-> JNull, error |-> <<>>, settles |-> 0]]
\* a channel with one port for all messages: a new message takes the port of
\* the requests in flight
SentSrvOnePort(r) ==
    [q \in ReqIds |-> IF worker = "up"
                      THEN [FreeSrv EXCEPT !.pc = "queued", !.port = "open"]
                      ELSE [FreeSrv EXCEPT !.port = "unreachable"]]

SentSrv(r) ==
    [srv EXCEPT ![r] = IF worker = "up"
                       THEN [FreeSrv EXCEPT !.pc = "queued", !.port = "open"]
                       ELSE [FreeSrv EXCEPT !.port = "unreachable"]]

\* a caller other than query(): describe(), or request() with an absolute URL
DirectPaths == {DescribePath, <<Scheme, "acme", ".evil.com", "/query">>}

ClientRequest(path) ==
    /\ worker \in {"up", "down"}
    /\ HasFreeReq
    /\ req' = SentReq(NextReq, path, 0)
    /\ srv' = SentSrv(NextReq)
    /\ UNCHANGED <<orgOrigin, cookieJar, chain, worker, sink, query,
                   normVars, cookieVars, toolVars>>

\* the caller of a direct request takes its result; the request is over
ClientDone(r) ==
    /\ req[r].st \in {"resolved", "rejected"}
    /\ req[r].page = 0
    /\ req' = [req EXCEPT ![r] = FreeReq]
    /\ srv' = [srv EXCEPT ![r] = FreeSrv]
    /\ UNCHANGED <<orgOrigin, cookieJar, chain, worker, sink, query,
                   normVars, cookieVars, toolVars>>

\* query(soql) / toolingQuery(soql): the first request
QueryStart ==
    /\ worker \in {"up", "down"}
    /\ query.pc = "idle"
    /\ HasFreeReq
    /\ \E kind \in {"query", "toolingQuery"} :
          LET path == IF kind = "query" THEN QueryPath ELSE ToolingQueryUrl(orgOrigin)
          IN  /\ req' = SentReq(NextReq, path, 1)
              /\ srv' = SentSrv(NextReq)
              /\ query' = [pc |-> "await", kind |-> kind, records |-> <<>>,
                           req |-> NextReq, issued |-> 1, error |-> <<>>,
                           returned |-> FALSE]
    /\ UNCHANGED <<orgOrigin, cookieJar, chain, worker, sink,
                   normVars, cookieVars, toolVars>>

\* a query() that catches the error of a page and returns what it has
QueryThrowsReturnsPartial(q, error) == [q EXCEPT !.pc = "done", !.returned = TRUE]

\* a query() that swallows the error of a page and waits on
QueryThrowsWaitsOn(q, error) == q

\* an `await this.request(...)` of query()/toolingQuery() throws: nothing
\* catches it, the call rejects with the error and returns no value
QueryThrows(q, error) == [q EXCEPT !.pc = "rejected", !.error = error]

\* query()/toolingQuery() resumes after `await this.request(...)`
QueryStep ==
    /\ query.pc = "await"
    /\ req[query.req].st \in {"resolved", "rejected"}
    /\ LET r    == req[query.req]
           over == [req EXCEPT ![query.req] = FreeReq]
       IN  IF r.st = "rejected"
           THEN /\ query' = QueryThrows(query, r.error)
                /\ req' = over
                /\ srv' = [srv EXCEPT ![query.req] = FreeSrv]
           ELSE IF r.data.kind = "null"
           THEN /\ query' = QueryThrows(query, NullRecordsMsg)
                /\ req' = over
                /\ srv' = [srv EXCEPT ![query.req] = FreeSrv]
           ELSE IF r.data.next = <<>>
           THEN /\ query' = [query EXCEPT !.pc = "done", !.returned = TRUE,
                                          !.records = ConcatRecords(@, r.data)]
                /\ req' = over
                /\ srv' = [srv EXCEPT ![query.req] = FreeSrv]
           ELSE /\ req' = SentReq(query.req, normalizeToMyDomain(r.data.next),
                                  query.issued + 1)
                /\ srv' = SentSrv(query.req)
                /\ query' = [query EXCEPT !.records = ConcatRecords(@, r.data),
                                          !.issued = @ + 1]
    /\ UNCHANGED <<orgOrigin, cookieJar, chain, worker, sink,
                   normVars, cookieVars, toolVars>>

\* the caller of query()/toolingQuery() takes the records or the error
QueryReturns ==
    /\ query.pc \in {"done", "rejected"}
    /\ query' = IdleQuery
    /\ UNCHANGED <<orgOrigin, cookieJar, chain, worker, req, srv, sink,
                   normVars, cookieVars, toolVars>>

\* the listener runs: handleProxyRequest up to its fetch
WorkerReceive(r) ==
    /\ worker = "up"
    /\ srv[r].pc = "queued"
    /\ \E fail \in RelayCookieFails :
          LET h == HandlerStart([url |-> req[r].url, method |-> req[r].method,
                                 body |-> Null], cookieJar, fail)
          IN  IF h.throws
              THEN srv' = [srv EXCEPT ![r].pc = "done", ![r].fail = fail,
                               ![r].sends = @ \o ListenerReply(
                                   [ok |-> FALSE, data |-> JNull, error |-> h.error])]
              ELSE srv' = [srv EXCEPT ![r].pc = "fetch", ![r].fail = fail,
                               ![r].fetch = h.fetch]
    /\ UNCHANGED <<orgOrigin, cookieJar, chain, worker, req, sink, query,
                   normVars, cookieVars, toolVars>>

\* what the org may answer to the fetch of request r
OkBody(r) ==
    IF req[r].page = 0 THEN JObject
    ELSE [kind |-> "object", records |-> chain[req[r].page].records,
          next |-> chain[req[r].page].next, messages |-> <<>>]

ErrorArray ==
    [kind |-> "array", records |-> <<>>, next |-> <<>>,
     messages |-> << <<"MALFORMED_QUERY">>, <<"unexpected token">> >>]

RelayResponses(r) ==
    {[status |-> 200, json |-> TRUE, body |-> OkBody(r)],
     [status |-> 204, json |-> FALSE, body |-> JNull],
     [status |-> 401, json |-> TRUE, body |-> ErrorArray],
     [status |-> 500, json |-> FALSE, body |-> JNull]}

\* the fetch settles, with one of the responses resps or with a network
\* failure, and handleProxyRequest runs to its end
FetchSettlesWith(r, resps) ==
    /\ worker = "up"
    /\ srv[r].pc = "fetch"
    /\ \/ \E resp \in resps :
             srv' = [srv EXCEPT ![r].pc = "done", ![r].resp = resp,
                         ![r].sends = @ \o ListenerReply(HandlerFinish(resp))]
       \/ srv' = [srv EXCEPT ![r].pc = "done",
                       ![r].sends = @ \o ListenerReply(
                           [ok |-> FALSE, data |-> JNull, error |-> FetchFailedMsg])]
    /\ UNCHANGED <<orgOrigin, cookieJar, chain, worker, req, sink, query,
                   normVars, cookieVars, toolVars>>

\* chrome.runtime invokes the sendMessage callback: with the first response,
\* or with lastError set when there is no listener or the port was closed
Callback(r) ==
    /\ srv[r].port \in {"unreachable", "closed", "open"}
    /\ srv[r].port = "open" => srv[r].sends # <<>>
    /\ LET lastError == IF srv[r].port = "unreachable" THEN NoReceiverMsg
                        ELSE IF srv[r].port = "closed" THEN PortClosedMsg
                        ELSE <<>>
           settled == RequestCallback(lastError, srv[r].sends)
       IN  req' = IF settled = <<>> THEN req
                  ELSE [req EXCEPT
                          ![r].st = IF settled[1].how = "resolve" THEN "resolved"
                                    ELSE "rejected",
                          ![r].data = settled[1].data,
                          ![r].error = settled[1].error,
                          ![r].settles = @ + Len(settled)]
    /\ srv' = [srv EXCEPT ![r].port = "done"]
    /\ UNCHANGED <<orgOrigin, cookieJar, chain, worker, sink, query,
                   normVars, cookieVars, toolVars>>

\* the browser terminates the worker: the handlers in flight die with it and
\* their ports close unanswered
WorkerTerminates ==
    /\ worker = "up"
    /\ worker' = "down"
    /\ srv' = [r \in ReqIds |->
                 IF srv[r].pc \in {"queued", "fetch"}
                 THEN [srv[r] EXCEPT !.pc = "dead", !.port = "closed"]
                 ELSE srv[r]]
    /\ UNCHANGED <<orgOrigin, cookieJar, chain, req, sink, query,
                   normVars, cookieVars, toolVars>>

WorkerRestarts ==
    /\ worker = "down"
    /\ worker' = "up"
    /\ UNCHANGED <<orgOrigin, cookieJar, chain, req, srv, sink, query,
                   normVars, cookieVars, toolVars>>

FetchSettles(r) == FetchSettlesWith(r, RelayResponses(r))

\* the browser, the worker and the org, whoever the caller is
Relay ==
    \/ \E r \in ReqIds : WorkerReceive(r)
    \/ \E r \in ReqIds : FetchSettles(r)
    \/ \E r \in ReqIds : Callback(r)
    \/ WorkerTerminates
    \/ WorkerRestarts

(* Tool pages that call request() directly, several at a time *)
Init == RelayInit /\ chain = <<>> /\ NormIdle /\ CookieIdle /\ ToolIdle

Next ==
    \/ \E path \in DirectPaths : ClientRequest(path)
    \/ \E r \in ReqIds : ClientDone(r)
    \/ Relay

Spec == Init /\ [][Next]_vars

(* A tool page that calls query() or toolingQuery() *)
InitQuery == RelayInit /\ chain \in Chains /\ NormIdle /\ CookieIdle /\ ToolIdle

NextQuery ==
    \/ QueryStart
    \/ QueryStep
    \/ QueryReturns
    \/ Relay

SpecQuery == InitQuery /\ [][NextQuery]_vars

(* One request at a time, answered by the org in every way that           *)
(* handleProxyRequest tells apart                                          *)
MsgTexts == {<<>>, <<"MALFORMED_QUERY">>, <<"unexpected token">>}

\* the bodies response.json() can produce: null, an object with no message,
\* with an empty or a non-empty one, an array of objects each with or
\* without (<<>>) a message
HttpBodies ==
    {JNull}
    \cup {[kind |-> "object", records |-> <<>>, next |-> <<>>, messages |-> ms] :
             ms \in {<<>>, << <<>> >>, << <<"MALFORMED_QUERY">> >>}}
    \cup {[kind |-> "array", records |-> <<>>, next |-> <<>>, messages |-> ms] :
             ms \in SeqsUpTo(MsgTexts, MaxMsgs)}

HttpStatuses == {200, 204, 400, 401, 500}

\* a 204 has no body; a body that is not JSON has no value
HttpResponses ==
    {[status |-> s, json |-> TRUE, body |-> b] :
        s \in HttpStatuses \ {204}, b \in HttpBodies}
    \cup {[status |-> s, json |-> FALSE, body |-> JNull] : s \in HttpStatuses}

\* the paths handed to request(): relative, absolute, and a relative one
\* named with the letters "http"
HttpPaths ==
    {DescribePath,
     <<Scheme, "acme", MyDomain, ApiBase, "/query">>,
     <<HttpNamedPath>>}

HttpRequest ==
    /\ \A r \in ReqIds : req[r].st = "free"
    /\ \E path \in HttpPaths : ClientRequest(path)

InitHttp == Init

NextHttp ==
    \/ HttpRequest
    \/ \E r \in ReqIds : ClientDone(r)
    \/ \E r \in ReqIds : WorkerReceive(r)
    \/ \E r \in ReqIds : FetchSettlesWith(r, HttpResponses)
    \/ \E r \in ReqIds : Callback(r)

SpecHttp == InitHttp /\ [][NextHttp]_vars


(* formatFieldType, called with every combination of its arguments *)

\* `${n}` in a template literal
Template(n) == IF n = NoNumber THEN "undefined" ELSE ToString(n[1])

\* a number, a string that a JavaScript condition takes as true
TruthyNumber(n) == n # NoNumber /\ n[1] # 0
TruthyString(str) == str \notin {Undefined, ""}

formatFieldType(type, length, precision, scale) ==
    CASE type = "string"        -> IF TruthyNumber(length)
                                   THEN <<"Text(", Template(length), ")">>
                                   ELSE <<"Text">>
      [] type = "textarea"      -> <<"Text Area">>
      [] type = "picklist"      -> <<"Picklist">>
      [] type = "multipicklist" -> <<"Multi-Select Picklist">>
      [] type = "boolean"       -> <<"Checkbox">>
      [] type = "double"        -> IF TruthyNumber(precision)
                                   THEN <<"Number(", Template(precision), ",",
                                          Template(scale), ")">>
                                   ELSE <<"Number">>
      [] type = "currency"      -> <<"Currency">>
      [] type = "percent"       -> <<"Percent">>
      [] type = "date"          -> <<"Date">>
      [] type = "datetime"      -> <<"Date/Time">>
      [] type = "reference"     -> <<"Lookup">>
      [] type = "id"            -> <<"ID">>
      [] OTHER                  -> IF TruthyString(type) THEN <<type>> ELSE <<"Unknown">>

KnownTypes == {"string", "textarea", "picklist", "multipicklist", "boolean",
               "double", "currency", "percent", "date", "datetime",
               "reference", "id"}
FieldTypes == KnownTypes \cup {"foo", "", Undefined}
FieldSizes == {NoNumber, <<0>>, <<2>>, <<10>>, <<80>>}

FmtInit ==
    \E t \in FieldTypes, l, p, s \in FieldSizes :
        fmt = [pc |-> "start", type |-> t, length |-> l, precision |-> p,
               scale |-> s, out |-> <<>>]

FormatFieldType ==
    /\ fmt.pc = "start"
    /\ fmt' = [fmt EXCEPT !.pc = "done",
                  !.out = formatFieldType(fmt.type, fmt.length, fmt.precision,
                                          fmt.scale)]
    /\ UNCHANGED <<normVars, cookieVars, relayVars, scan, tab, pageVars>>

InitFmt == FmtInit /\ ScanIdle /\ PageIdle /\ TwinsIdle /\ CtlIdle /\ BuildIdle /\ QuoteIdle /\ NormIdle /\ CookieIdle /\ RelayIdle
NextFmt == FormatFieldType
SpecFmt == InitFmt /\ [][NextFmt]_vars


(* The batches of the tool pages.  Each request of a batch resolves or     *)
(* rejects; which ones reject is fixed when the batch starts.              *)

\* runScan: the objects described, in order
ScanObjects == <<"SBQQ__QuoteLine__c", "OpportunityLineItem">>

\* buildQuotePreview: the fetches handed to Promise.all
QuoteFetches == <<"fetchPricebookEntries", "fetchPriceRules",
                  "fetchProductRules", "fetchApprovalRules">>

BatchItems(tool) == IF tool = "twin" THEN ScanObjects ELSE QuoteFetches

ScanInit ==
    \E tool \in {"twin", "sku"} :
        \E fails \in SUBSET (1..Len(BatchItems(tool))) :
            scan = [tool |-> tool, fails |-> fails, pc |-> "start", issued |-> {},
                    got |-> [k \in 1..Len(BatchItems(tool)) |-> "none"],
                    shown |-> "empty", lines |-> <<>>]

\* runScan up to its first await: showState("loading"), api.describe(QL)
runScan ==
    /\ scan.tool = "twin" /\ scan.pc = "start"
    /\ scan' = [scan EXCEPT !.pc = "await", !.issued = {1}, !.shown = "loading"]
    /\ UNCHANGED <<normVars, cookieVars, relayVars, fmt, tab, pageVars>>

\* the describe awaited settles: a rejection goes to the catch of runScan,
\* a result leads to the next describe or, after the last, to the results
runScanResumes ==
    /\ scan.tool = "twin" /\ scan.pc = "await"
    /\ LET k == CHOOSE i \in scan.issued : \A j \in scan.issued : j <= i
       IN  IF k \in scan.fails
           THEN scan' = [scan EXCEPT !.pc = "done", !.got[k] = "rejected",
                                     !.shown = "error"]
           ELSE IF k < Len(ScanObjects)
           THEN scan' = [scan EXCEPT !.got[k] = "data", !.issued = @ \cup {k + 1}]
           ELSE scan' = [scan EXCEPT !.pc = "done", !.got[k] = "data",
                             !.shown = "results",
                             !.lines = [i \in 1..Len(ScanObjects) |->
                                           IF i = k THEN "data" ELSE scan.got[i]]]
    /\ UNCHANGED <<normVars, cookieVars, relayVars, fmt, tab, pageVars>>

\* buildQuotePreview up to its await: the four fetches are started together
buildQuotePreview ==
    /\ scan.tool = "sku" /\ scan.pc = "start"
    /\ scan' = [scan EXCEPT !.pc = "await", !.issued = 1..Len(QuoteFetches),
                            !.shown = "loading"]
    /\ UNCHANGED <<normVars, cookieVars, relayVars, fmt, tab, pageVars>>

\* a fetch whose query rejected returns what its catch returns
FetchFallback(k) == IF QuoteFetches[k] = "fetchPricebookEntries" THEN "stub" ELSE "empty"

\* fetchPricebookEntries, fetchPriceRules, fetchProductRules,
\* fetchApprovalRules: the query settles and the fetch returns
fetchReturns(k) ==
    /\ scan.tool = "sku" /\ scan.pc = "await"
    /\ k \in scan.issued /\ scan.got[k] = "none"
    /\ scan' = [scan EXCEPT !.got[k] = IF k \in scan.fails THEN FetchFallback(k)
                                       ELSE "data"]
    /\ UNCHANGED <<normVars, cookieVars, relayVars, fmt, tab, pageVars>>

\* Promise.all resolves once every fetch has returned; the results are shown
buildQuotePreviewResumes ==
    /\ scan.tool = "sku" /\ scan.pc = "await"
    /\ \A k \in 1..Len(QuoteFetches) : scan.got[k] # "none"
    /\ scan' = [scan EXCEPT !.pc = "done", !.shown = "results", !.lines = scan.got]
    /\ UNCHANGED <<normVars, cookieVars, relayVars, fmt, tab, pageVars>>

InitScan == ScanInit /\ FmtIdle /\ PageIdle /\ TwinsIdle /\ CtlIdle /\ BuildIdle /\ QuoteIdle /\ NormIdle /\ CookieIdle /\ RelayIdle
NextScan ==
    \/ runScan
    \/ runScanResumes
    \/ buildQuotePreview
    \/ \E k \in 1..Len(QuoteFetches) : fetchReturns(k)
    \/ buildQuotePreviewResumes
SpecScan == InitScan /\ [][NextScan]_vars


(* A tool page from its load on: init, then the user on its controls *)

\* a getAPIFromUrl that builds the API whatever the parameter is
getAPIFromUrlNoTest(org) == [made |-> TRUE, orgOrigin |-> NewOrgOrigin(org.value)]

\* getAPIFromUrl: params.get("org") is null without the parameter and "" with
\* an empty one; both are `!org`.  decodeURIComponent leaves an origin as is.
getAPIFromUrl(org) ==
    IF ~org.present \/ org.value = <<>> THEN NoApi
    ELSE [made |-> TRUE, orgOrigin |-> NewOrgOrigin(org.value)]

\* the ?org= parameter of the page URL: absent, empty, an origin
OrgParamValues ==
    {[present |-> FALSE, value |-> <<>>], [present |-> TRUE, value |-> <<>>]}
    \cup {[present |-> TRUE, value |-> o] : o \in OrgParams}

\* the controls init() wires up, and the ones whose handler calls the API
TwinControls == {"runScanBtn", "exportBtn", "searchInput"}
SkuControls == {"productSearch", "buildQuoteBtn", "exportQuoteBtn", "loadMoreBtn"}
Controls(tool) == IF tool = "twin" THEN TwinControls ELSE SkuControls
RequestOf(control) ==
    CASE control = "runScanBtn"    -> <<DescribePath>>
      [] control = "buildQuoteBtn" -> <<QueryPath>>
      [] OTHER                     -> <<>>

PageInit ==
    \E tool \in {"twin", "sku"}, org \in OrgParamValues :
        tab = [tool |-> tool, org |-> org, pc |-> "load", api |-> NoApi,
                shown |-> "none", handlers |-> {}, sent |-> <<>>, events |-> <<>>]

\* init(): without an api, the error is shown and init returns; with one,
\* the handlers are registered and the SKU page starts loadProducts()
init ==
    /\ tab.pc = "load"
    /\ LET api == getAPIFromUrl(tab.org)
       IN  IF ~api.made
           THEN tab' = [tab EXCEPT !.pc = "blocked", !.shown = "error"]
           ELSE tab' = [tab EXCEPT !.pc = "ready", !.api = api,
                             !.handlers = Controls(tab.tool),
                             !.shown = "tool",
                             !.sent = IF tab.tool = "sku" THEN <<QueryPath>> ELSE <<>>]
    /\ UNCHANGED <<normVars, cookieVars, relayVars, fmt, scan, pageVars>>

\* the user acts on a control: its handler runs if one was registered
UserEvent(control) ==
    /\ tab.pc \in {"blocked", "ready"}
    /\ Len(tab.events) < MaxEvents
    /\ control \in Controls(tab.tool)
    /\ tab' = [tab EXCEPT !.events = Append(@, control),
                            !.sent = IF control \in tab.handlers
                                     THEN @ \o RequestOf(control) ELSE @]
    /\ UNCHANGED <<normVars, cookieVars, relayVars, fmt, scan, pageVars>>

InitPage == PageInit /\ FmtIdle /\ ScanIdle /\ TwinsIdle /\ CtlIdle /\ BuildIdle /\ QuoteIdle /\ NormIdle /\ CookieIdle /\ RelayIdle
NextPage ==
    \/ init
    \/ \E control \in TwinControls \cup SkuControls : UserEvent(control)
SpecPage == InitPage /\ [][NextPage]_vars


(* computeTwinPairs of the Twin Field Explorer *)

\* the field API names of the describes, and String.prototype.toLowerCase
FieldNames == {"amount__c", "Amount__c", "Name", "Zeta__c", "zeta__c"}
toLowerCase(name) ==
    CASE name = "Amount__c" -> "amount__c"
      [] name = "Name"      -> "name"
      [] name = "Zeta__c"   -> "zeta__c"
      [] OTHER              -> name

\* String.prototype.localeCompare: the letters first, and between two names
\* with the same letters the lower-case one first
LocaleRank(name) ==
    CASE name = "amount__c" -> 1
      [] name = "Amount__c" -> 2
      [] name = "Name"      -> 3
      [] name = "zeta__c"   -> 4
      [] name = "Zeta__c"   -> 5
localeCompare(a, b) == LocaleRank(a) - LocaleRank(b)

\* new Map(fields.map(f => [f.name.toLowerCase(), f])): the keys in the order
\* of their first insertion, and for every key the field inserted last
RECURSIVE MapKeys(_)
MapKeys(fields) ==
    IF fields = <<>> THEN <<>>
    ELSE LET front == MapKeys(SubSeq(fields, 1, Len(fields) - 1))
             key   == toLowerCase(fields[Len(fields)].name)
         IN  IF \E i \in 1..Len(front) : front[i] = key THEN front
             ELSE Append(front, key)
MapHas(fields, key) == \E i \in 1..Len(fields) : toLowerCase(fields[i].name) = key
MapGet(fields, key) ==
    LET last == CHOOSE i \in 1..Len(fields) :
                    /\ toLowerCase(fields[i].name) = key
                    /\ \A j \in (i + 1)..Len(fields) : toLowerCase(fields[j].name) # key
    IN  fields[last]

\* the pair pushed for a key that both maps have
TwinPair(qlField, oliField) ==
    [apiName |-> qlField.name, qlType |-> qlField.type, oliType |-> oliField.type,
     typesMatch |-> (qlField.type = oliField.type), isTwin |-> TRUE]

\* the loop over qlMap.entries()
RECURSIVE PushPairs(_, _, _)
PushPairs(keys, qlFields, oliFields) ==
    IF keys = <<>> THEN <<>>
    ELSE LET rest == PushPairs(Tail(keys), qlFields, oliFields)
         IN  IF MapHas(oliFields, Head(keys))
             THEN <<TwinPair(MapGet(qlFields, Head(keys)), MapGet(oliFields, Head(keys)))>> \o rest
             ELSE rest

\* pairs.sort((a, b) => a.apiName.localeCompare(b.apiName)), a stable sort
RECURSIVE SortPairs(_)
SortPairs(pairs) ==
    IF pairs = <<>> THEN <<>>
    ELSE LET sorted == SortPairs(SubSeq(pairs, 1, Len(pairs) - 1))
             p      == pairs[Len(pairs)]
             before == SelectSeq(sorted, LAMBDA q : localeCompare(q.apiName, p.apiName) <= 0)
             after  == SelectSeq(sorted, LAMBDA q : localeCompare(q.apiName, p.apiName) > 0)
         IN  before \o <<p>> \o after

\* a computeTwinPairs that returns the pairs in the order of the describe
computeTwinPairsUnsorted(qlFields, oliFields) ==
    PushPairs(MapKeys(qlFields), qlFields, oliFields)

computeTwinPairs(qlFields, oliFields) ==
    SortPairs(PushPairs(MapKeys(qlFields), qlFields, oliFields))

\* the type codes, and the describe results: the API names of one object
\* differ in more than their case
FieldTypeCodes == {"double", "currency"}
DescribeFields == [name : FieldNames, type : FieldTypeCodes]
DescribeResults ==
    {fs \in UNION {[1..n -> DescribeFields] : n \in 0..MaxFields} :
        \A i, j \in 1..Len(fs) :
            toLowerCase(fs[i].name) = toLowerCase(fs[j].name) => i = j}

TwinsInit ==
    \E ql \in DescribeResults, oli \in DescribeResults :
        twins = [pc |-> "call", ql |-> ql, oli |-> oli, pairs |-> <<>>]

\* runScan's call of computeTwinPairs on the two describe results
ComputeTwinPairs ==
    /\ twins.pc = "call"
    /\ twins' = [twins EXCEPT !.pc = "done",
                              !.pairs = computeTwinPairs(twins.ql, twins.oli)]
    /\ UNCHANGED <<normVars, cookieVars, relayVars, fmt, scan, tab, ctl, build, quote>>

InitTwins == TwinsInit /\ FmtIdle /\ ScanIdle /\ PageIdle /\ CtlIdle /\ BuildIdle
             /\ QuoteIdle /\ NormIdle /\ CookieIdle /\ RelayIdle
NextTwins == ComputeTwinPairs
SpecTwins == InitTwins /\ [][NextTwins]_vars


(* query()/toolingQuery() against an org whose chain of pages ends, or     *)
(* never ends, with every request of the relay settling in the end         *)

\* an org that puts a nextRecordsUrl on every page it serves
EndlessChains ==
    {[k \in 1..(MaxPages + 1) |-> [records |-> PageRecords(k),
                                   next |-> NextUrl("absolute", k + 1)]]}

\* the do-while has no page limit; the pages asked for are bounded here by
\* the pages the endless chain spells out
QueryStepBounded == query.issued <= MaxPages /\ QueryStep

InitPaging == RelayInit /\ chain \in Chains \cup EndlessChains
              /\ NormIdle /\ CookieIdle /\ ToolIdle

NextPaging ==
    \/ QueryStart
    \/ QueryStepBounded
    \/ QueryReturns
    \/ Relay

\* the event loop resumes an await whose promise has settled, and the one
\* relay request of the call settles: the fetch settles, the callback is
\* invoked
PagingProgress ==
    \/ QueryStepBounded
    \/ \E r \in ReqIds : FetchSettles(r) \/ Callback(r)

\* a message is waiting for the listener of a running worker: the listener
\* can run, and then it does
ListenerDue == worker = "up" /\ \E r \in ReqIds : srv[r].pc = "queued"
ListenerRuns == \E r \in ReqIds : WorkerReceive(r)

SpecPaging ==
    /\ InitPaging /\ [][NextPaging]_vars
    /\ WF_vars(PagingProgress)
    /\ ([]<>(~ListenerDue) \/ []<><<ListenerRuns>>_vars)


(* The Twin Field Explorer's scan and its two controls *)

\* a runScan that leaves the run-scan control enabled while it scans
runScanStartLeavesEnabled(c) ==
    [c EXCEPT !.shown = "loading", !.exportDisabled = TRUE]

\* runScan before its try: the loading state, both controls disabled
runScanStart(c) ==
    [c EXCEPT !.shown = "loading", !.runDisabled = TRUE, !.exportDisabled = TRUE]

\* the finally of runScan
runScanFinally(c) == [c EXCEPT !.runDisabled = FALSE]

\* the page after init(): no scan yet; the export control is as the page's
\* markup has it
CtlInit ==
    \E exportDisabled \in BOOLEAN :
        ctl = [pc |-> "ready", runDisabled |-> FALSE, exportDisabled |-> exportDisabled,
               scans |-> <<>>, shown |-> "pre", last |-> "none", log |-> <<>>]

\* a click on runScanBtn: a disabled button dispatches no click; runScan runs
\* to its first await, the describe of SBQQ__QuoteLine__c
TwinRunScan ==
    /\ ctl.pc = "ready"
    /\ ~ctl.runDisabled
    /\ Len(ctl.log) < MaxScans
    /\ ctl' = [runScanStart(ctl) EXCEPT !.scans = Append(@, 1), !.last = "running"]
    /\ UNCHANGED <<normVars, cookieVars, relayVars, fmt, scan, tab, twins, build, quote>>

\* the describe a runScan awaits settles: after the first the second is
\* awaited; after the second the results are shown and the export control is
\* enabled; a rejection, or an exception of the code after the describes,
\* shows the error; the finally enables the run-scan control
TwinDescribeSettles(i, ok) ==
    /\ ctl.pc = "ready"
    /\ i \in 1..Len(ctl.scans)
    /\ LET others == [j \in 1..(Len(ctl.scans) - 1) |->
                         IF j < i THEN ctl.scans[j] ELSE ctl.scans[j + 1]]
       IN  IF ~ok
           THEN ctl' = [runScanFinally(ctl) EXCEPT !.shown = "error", !.scans = others,
                             !.last = "failed", !.log = Append(@, "failed")]
           ELSE IF ctl.scans[i] < Len(ScanObjects)
           THEN ctl' = [ctl EXCEPT !.scans[i] = @ + 1]
           ELSE ctl' = [runScanFinally(ctl) EXCEPT !.shown = "results",
                             !.exportDisabled = FALSE, !.scans = others,
                             !.last = "ok", !.log = Append(@, "ok")]
    /\ UNCHANGED <<normVars, cookieVars, relayVars, fmt, scan, tab, twins, build, quote>>

\* a click on exportBtn: exportCSV writes the pairs of the last results
TwinExportCSV ==
    /\ ctl.pc = "ready"
    /\ ~ctl.exportDisabled
    /\ Len(ctl.log) < MaxScans
    /\ ctl' = [ctl EXCEPT !.log = Append(@, "export")]
    /\ UNCHANGED <<normVars, cookieVars, relayVars, fmt, scan, tab, twins, build, quote>>

InitCtl == CtlInit /\ FmtIdle /\ ScanIdle /\ PageIdle /\ TwinsIdle /\ BuildIdle
           /\ QuoteIdle /\ NormIdle /\ CookieIdle /\ RelayIdle
NextCtl ==
    \/ TwinRunScan
    \/ \E i \in 1..MaxScans, ok \in BOOLEAN : TwinDescribeSettles(i, ok)
    \/ TwinExportCSV
SpecCtl == InitCtl /\ [][NextCtl]_vars


(* The SKU Quote Explorer: the selection and the builds of the preview *)

Products == {"p1", "p2"}

\* no quote built yet: quoteLines = []
NoQuote == [of |-> 0, products |-> {}]

\* the page after init() and loadProducts(): nothing selected, nothing built
BuildInit ==
    build = [pc |-> "ready", selected |-> {}, buildDisabled |-> TRUE,
             exportDisabled |-> TRUE, flights |-> <<>>, starts |-> <<>>,
             quoteLines |-> NoQuote, shown |-> "empty", events |-> 0]

\* toggleProduct and the tag's remove handler, then renderSelectedBar
toggleProduct(p) ==
    /\ build.pc = "ready"
    /\ build.events < MaxClicks
    /\ LET selected == IF p \in build.selected THEN build.selected \ {p}
                       ELSE build.selected \cup {p}
       IN  build' = [build EXCEPT !.selected = selected,
                                  !.buildDisabled = (selected = {}),
                                  !.events = @ + 1]
    /\ UNCHANGED <<normVars, cookieVars, relayVars, fmt, scan, tab, twins, ctl, quote>>

\* a click on buildQuoteBtn with products selected (with none the button is
\* disabled, and buildQuotePreview would return at once): buildQuotePreview
\* up to its await; the four fetches get the ids selected now
SkuBuildQuotePreview ==
    /\ build.pc = "ready"
    /\ build.selected # {}
    /\ build.events < MaxClicks
    /\ build' = [build EXCEPT
                    !.shown = "loading", !.exportDisabled = TRUE,
                    !.starts = Append(@, build.selected),
                    !.flights = Append(@, [of |-> Len(build.starts) + 1,
                                           ids |-> build.selected,
                                           entries |-> {}, fetched |-> FALSE]),
                    !.events = @ + 1]
    /\ UNCHANGED <<normVars, cookieVars, relayVars, fmt, scan, tab, twins, ctl, quote>>

\* fetchPricebookEntries of a build returns: the entries of the ids it asked
\* for, or, its query having failed, stubs of the products selected now
fetchPricebookEntriesReturns(i, ok) ==
    /\ build.pc = "ready"
    /\ i \in 1..Len(build.flights)
    /\ ~build.flights[i].fetched
    /\ build' = [build EXCEPT !.flights[i].fetched = TRUE,
                              !.flights[i].entries = IF ok THEN build.flights[i].ids
                                                     ELSE build.selected]
    /\ UNCHANGED <<normVars, cookieVars, relayVars, fmt, scan, tab, twins, ctl, quote>>

\* the Promise.all of a build resolves: quoteLines and the rule lists are
\* assigned and rendered, the export control is enabled
SkuBuildResumes(i) ==
    /\ build.pc = "ready"
    /\ i \in 1..Len(build.flights)
    /\ build.flights[i].fetched
    /\ build' = [build EXCEPT
                    !.quoteLines = [of |-> build.flights[i].of,
                                    products |-> build.flights[i].entries],
                    !.shown = "results", !.exportDisabled = FALSE,
                    !.flights = [j \in 1..(Len(build.flights) - 1) |->
                                    IF j < i THEN build.flights[j]
                                    ELSE build.flights[j + 1]]]
    /\ UNCHANGED <<normVars, cookieVars, relayVars, fmt, scan, tab, twins, ctl, quote>>

InitBuild == BuildInit /\ FmtIdle /\ ScanIdle /\ PageIdle /\ TwinsIdle /\ CtlIdle
             /\ QuoteIdle /\ NormIdle /\ CookieIdle /\ RelayIdle
NextBuild ==
    \/ \E p \in Products : toggleProduct(p)
    \/ SkuBuildQuotePreview
    \/ \E i \in 1..MaxClicks, ok \in BOOLEAN : fetchPricebookEntriesReturns(i, ok)
    \/ \E i \in 1..MaxClicks : SkuBuildResumes(i)
SpecBuild == InitBuild /\ [][NextBuild]_vars


(* The quote lines of the SKU Quote Explorer under the user's edits.       *)
(* Numbers are counted in tenths: 25 is 2.5, 1000 is 100.                  *)

\* the texts of the number inputs, and parseFloat of them (<<>> is NaN)
InputValues == {"", "abc", "-3", "2.5", "150"}
parseFloat(text) ==
    CASE text = "-3"  -> <<0 - 30>>
      [] text = "2.5" -> <<25>>
      [] text = "150" -> <<1500>>
      [] OTHER        -> NoNumber

\* parseFloat(e.target.value) || 0
InputNumber(text) ==
    IF TruthyNumber(parseFloat(text)) THEN parseFloat(text)[1] ELSE 0

\* Math.round: to the nearest integer, a half upwards
MathRound(x) == ((x + 5) \div 10) * 10
MathMax(a, b) == IF a >= b THEN a ELSE b
MathMin(a, b) == IF a <= b THEN a ELSE b

\* a quantity edit that does not round
NewQuantityUnrounded(val) == MathMax(10, val)

\* Math.max(1, Math.round(val)) and Math.min(100, Math.max(0, val))
NewQuantity(val) == MathMax(10, MathRound(val))
NewDiscount(val) == MathMin(1000, MathMax(0, val))

\* the UnitPrice of a pricebook entry: null, negative, positive
UnitPrices == {NoNumber, <<0 - 50>>, <<50>>}
PricebookEntries ==
    UNION {[1..n -> [Product2Id : Products, UnitPrice : UnitPrices]] : n \in 0..MaxLines}

\* buildQuoteLines: one line for the first entry of every product, with
\* quantity 1 and discount 0
RECURSIVE buildQuoteLines(_)
buildQuoteLines(entries) ==
    IF entries = <<>> THEN <<>>
    ELSE LET front == buildQuoteLines(SubSeq(entries, 1, Len(entries) - 1))
             entry == entries[Len(entries)]
             price == IF TruthyNumber(entry.UnitPrice) THEN entry.UnitPrice[1] ELSE 0
         IN  IF \E i \in 1..Len(front) : front[i].productId = entry.Product2Id
             THEN front
             ELSE Append(front, [productId |-> entry.Product2Id, listPrice |-> price,
                                 unitPrice |-> price, quantity |-> 10, discount |-> 0])

\* calcTotal and calcNetTotal, both times 1000 (the net total without its
\* division by 100 and by the tenths of the discount)
RECURSIVE calcTotal(_)
calcTotal(lines) ==
    IF lines = <<>> THEN 0
    ELSE calcTotal(SubSeq(lines, 1, Len(lines) - 1))
         + lines[Len(lines)].listPrice * lines[Len(lines)].quantity * 1000
RECURSIVE calcNetTotal(_)
calcNetTotal(lines) ==
    IF lines = <<>> THEN 0
    ELSE calcNetTotal(SubSeq(lines, 1, Len(lines) - 1))
         + lines[Len(lines)].unitPrice * (1000 - lines[Len(lines)].discount)
           * lines[Len(lines)].quantity

\* the quote lines as a build has rendered them
QuoteInit ==
    \E entries \in PricebookEntries :
        quote = [pc |-> "ready", lines |-> buildQuoteLines(entries),
                 edits |-> 0, last |-> [idx |-> 0, field |-> "none", value |-> ""]]

\* the change event of the quantity or discount input of row idx
onLineInputChange(idx, field, value) ==
    /\ quote.pc = "ready"
    /\ quote.edits < MaxEdits
    /\ idx \in 1..Len(quote.lines)
    /\ LET val == InputNumber(value)
       IN  quote' = [quote EXCEPT
                        !.lines[idx] = IF field = "quantity"
                                       THEN [@ EXCEPT !.quantity = NewQuantity(val)]
                                       ELSE [@ EXCEPT !.discount = NewDiscount(val)],
                        !.edits = @ + 1,
                        !.last = [idx |-> idx, field |-> field, value |-> value]]
    /\ UNCHANGED <<normVars, cookieVars, relayVars, fmt, scan, tab, twins, ctl, build>>

InitQuote == QuoteInit /\ FmtIdle /\ ScanIdle /\ PageIdle /\ TwinsIdle /\ CtlIdle
             /\ BuildIdle /\ NormIdle /\ CookieIdle /\ RelayIdle
NextQuote ==
    \E idx \in 1..MaxLines, field \in {"quantity", "discount"}, value \in InputValues :
        onLineInputChange(idx, field, value)
SpecQuote == InitQuote /\ [][NextQuote]_vars


(* chrome.runtime always invokes the callback that is due *)
InitLive == Init /\ cookieJar # <<>>

NextLive ==
    \/ ClientRequest(DescribePath)
    \/ \E r \in ReqIds : ClientDone(r)
    \/ Relay

SpecLive == InitLive /\ [][NextLive]_vars /\ \A r \in ReqIds : WF_vars(Callback(r))

-----------------------------------------------------------------------------
(* Domain Normalizer claims *)

\* C1: normalizeToMyDomain is idempotent: normalizing the result of a
\* normalization gives that result again, for every input string.
C1_Idempotent == nPc = "twice" => nTwice = nOut

\* What C2 expects of an input: the Lightning suffix at the end of the
\* hostname replaced by the My Domain suffix, everything else as it was.
SuffixRewritten(url) ==
    IF CanParse(url) /\ EndsWith(LowerAll(SubSeq(url, 2, HostEnd(url))), Lightning)
    THEN [url EXCEPT ![HostEnd(url)] = MyDomain]
    ELSE url

\* C2: the output differs from the input only in the Lightning suffix at the
\* END of the hostname being replaced; the prefix is preserved verbatim and
\* any other URL, or a malformed string, is returned unchanged.
C2_OnlySuffixRewritten == nPc # "start" => nOut = SuffixRewritten(nUrl)

-----------------------------------------------------------------------------
(* Credential Locator claims *)

\* the values the lookups of a run can show, in the order of the attempts:
\* each get shows the one cookie it returns, getAll every cookie it lists
ValuesOf(cs) == [i \in 1..Len(cs) |-> cs[i].value]

SeenValues(jar, fail, domain) ==
    LET url == <<Scheme>> \o domain
        g1  == IF fail[1] THEN <<>> ELSE CookiesGet(jar, url, SidName)
        g2  == IF fail[2] THEN <<>> ELSE CookiesGet(jar, url, SidName)
        all == IF fail[3] THEN <<>> ELSE CookiesGetAll(jar, domain, SidName)
    IN  ValuesOf(g1) \o ValuesOf(g2) \o ValuesOf(all)

FirstNonEmpty(vs) ==
    vs[CHOOSE i \in 1..Len(vs) : vs[i] # "" /\ \A j \in 1..(i - 1) : vs[j] = ""]

\* C8: whenever a lookup shows a sid cookie with a non-empty value, the
\* value returned is the first non-empty value across all attempts; an
\* empty-valued cookie found earlier never hides a non-empty one.
C8_FirstNonEmptyValue ==
    cPc = "done" =>
        LET seen == SeenValues(cStore, cFail, cDomain)
        IN  (\E i \in 1..Len(seen) : seen[i] # "") => cRet = FirstNonEmpty(seen)

\* C9: getSessionCookie never throws; it returns null when no sid cookie is
\* found (none exists, or every call that could show one failed), and a
\* failed lookup is always followed by the next one.
C9_NeverThrows ==
    cPc = "done" =>
        /\ ~cThrew
        /\ SeenValues(cStore, cFail, cDomain) = <<>> => cRet = Null /\ Len(cCalls) = 3
        /\ \A i \in 1..2 : (i <= Len(cCalls) /\ cFail[i]) => Len(cCalls) > i

\* C9's case: both exact lookups failed and the broad search still ran and
\* found the credential
C9_Witness ==
    /\ cPc = "done"
    /\ cFail[1] /\ cFail[2] /\ ~cFail[3]
    /\ Len(cCalls) = 3
    /\ cRet = "00Dabc"

\* C10: the lookups are (a) get on the exact host, (b) get on the
\* leading-dot variant, a different target than (a), (c) getAll on the
\* domain; each later one is issued only if the earlier ones gave no value.
C10_LookupOrder ==
    cPc = "done" =>
        LET exact == <<Scheme>> \o cDomain
            dot   == <<Scheme, ".">> \o cDomain
            n     == Len(cCalls)
        IN  /\ n \in 1..3
            /\ cCalls[1] = GetCall(exact)
            /\ n >= 2 => cCalls[2] = GetCall(dot) /\ cCalls[2].target # cCalls[1].target
            /\ n >= 3 => cCalls[3] = GetAllCall(cDomain)
            /\ n >= 2 => (cFail[1] \/ ValuesOf(CookiesGet(cStore, exact, SidName)) \in {<<>>, <<"">>})

-----------------------------------------------------------------------------
(* Relay and client claims *)

RECURSIVE AllRecords(_)
AllRecords(pages) ==
    IF pages = <<>> THEN <<>> ELSE pages[1].records \o AllRecords(Tail(pages))

\* C3: query/toolingQuery returns the records of all pages of the chain,
\* concatenated in server order, nothing dropped, duplicated or reordered,
\* having issued exactly one request per page.
C3_QueryConcatenatesPages ==
    query.pc = "done" =>
        /\ query.records = AllRecords(chain)
        /\ query.issued = Len(chain)

\* C3's case: a query over a chain of several pages has returned
C3_Witness == query.pc = "done" /\ Len(chain) >= 2 /\ Len(query.records) >= 3

\* C20: when a page request of query/toolingQuery fails, first page or
\* continuation, the call rejects with the error of that request, returns no
\* record list, and issues no further request and repeats none.
C20_PageFailureRejects ==
    [][(query.pc = "await" /\ req[query.req].st = "rejected" /\ query' # query) =>
           /\ query'.pc = "rejected"
           /\ query'.error = req[query.req].error
           /\ ~query'.returned
           /\ query'.issued = query.issued
           /\ \A r \in ReqIds : req'[r].st = "free"]_vars

\* C20's case: the first page was collected, the continuation request was
\* answered 401, and the call has rejected
C20_Witness ==
    /\ query.pc = "rejected" /\ query.issued = 2
    /\ Len(query.records) >= 1
    /\ query.error = UnauthorizedMsg
    /\ ~query.returned


\* a URL that names a Lightning host
OnLightning(url) == \E i \in 1..Len(url) : url[i] = Lightning

\* C21: no page request of query/toolingQuery, as sent by the client or as
\* fetched by the worker, targets a .lightning.force.com host: a Lightning
\* nextRecordsUrl is normalized before it is requested.
C21_NoLightningPageRequest ==
    \A r \in ReqIds :
        /\ (req[r].st # "free" /\ req[r].page >= 1) => ~OnLightning(req[r].url)
        /\ \A i \in 1..Len(srv[r].fetch) :
              /\ ~OnLightning(srv[r].fetch[i].url)
              /\ EndsWith(ParseURL(srv[r].fetch[i].url).hostname, MyDomain)

\* C21's case: the first page gave a nextRecordsUrl on the Lightning host, and
\* the continuation request has been sent and fetched
C21_Witness ==
    \E r \in ReqIds :
        /\ req[r].page = 2 /\ Len(srv[r].fetch) = 1
        /\ OnLightning(chain[1].next)
        /\ ~OnLightning(req[r].url)


\* a request whose listener could not be reached, or whose worker terminated
\* before it responded
Unanswered(r) ==
    req[r].st = "pending" /\ srv[r].port \in {"unreachable", "closed"}

\* C4: a request whose privileged side is unreachable or terminates before
\* responding is eventually rejected at the caller with a message; it does
\* not stay pending.
C4_UnansweredIsRejected ==
    \A r \in ReqIds :
        Unanswered(r) ~> (req[r].st = "rejected" /\ req[r].error # <<>>)

\* C4's case: the worker terminated under a request in flight and the
\* caller was rejected with the port-closed message
C4_Witness ==
    \E r \in ReqIds :
        /\ srv[r].pc = "dead"
        /\ req[r].st = "rejected"
        /\ req[r].error = PortClosedMsg

HasCredential(str) == \E i \in 1..Len(str) : str[i] \in Credentials

\* the credential the jar holds for a host: the value of a sid cookie sent
\* to that host
CredentialOf(host, v) ==
    \E i \in 1..Len(cookieJar) :
        /\ cookieJar[i].name = SidName
        /\ cookieJar[i].value = v
        /\ DomainMatch(cookieJar[i].domain, host)

\* C6: the credential read for hostname H appears only in the Authorization
\* header of the single fetch of the same handler run, sent to a URL whose
\* hostname is H; never in the relayed result, an error message, a log or
\* extension storage.
C6_CredentialOnlyInFetch ==
    /\ \A v \in sink : v \notin Credentials
    /\ \A r \in ReqIds :
          /\ Len(srv[r].fetch) <= 1
          /\ \A i \in 1..Len(srv[r].fetch) :
                LET f == srv[r].fetch[i]
                IN  /\ f.cookieDomain = ParseURL(f.url).hostname
                    /\ ~HasCredential(f.url)
                    /\ Len(f.authorization) = 2
                    /\ CredentialOf(ParseURL(f.url).hostname, f.authorization[2])
          /\ \A i \in 1..Len(srv[r].sends) :
                /\ ~HasCredential(srv[r].sends[i].error)
                /\ ~HasCredential(srv[r].sends[i].data.next)
                /\ \A j \in 1..Len(srv[r].sends[i].data.messages) :
                      ~HasCredential(srv[r].sends[i].data.messages[j])
          /\ ~HasCredential(req[r].error)
          /\ ~HasCredential(req[r].data.next)
          /\ ~HasCredential(req[r].url)

\* C6's case: two handler runs have read the credentials of two different
\* hosts and each has issued its fetch
C6_Witness ==
    \E r, q \in ReqIds :
        /\ srv[r].fetch # <<>> /\ srv[q].fetch # <<>>
        /\ srv[r].fetch[1].authorization # srv[q].fetch[1].authorization
        /\ req[r].st = "resolved"

\* C7: no fetch carrying the sid bearer token goes to a hostname that is not
\* a Salesforce domain, whatever URL the page-context caller supplies.
C7_FetchOnlyToSalesforce ==
    \A r \in ReqIds :
        \A i \in 1..Len(srv[r].fetch) : isSalesforceUrl(srv[r].fetch[i].url)

-----------------------------------------------------------------------------
(* Error surfaces of the relay *)

\* what getSessionCookie returned to the handler run of request r
LocatedSid(r) ==
    getSessionCookie(cookieJar, srv[r].fail,
                     ParseURL(bgNormalizeToMyDomain(req[r].url)).hostname).ret

\* C11: when getSessionCookie returns null, handleProxyRequest issues no
\* fetch, the listener answers {success: false} with the "Could not find
\* Salesforce session cookie" message, and request() rejects with it.
C11_AbsentCredentialNoFetch ==
    \A r \in ReqIds :
        (srv[r].pc \in {"fetch", "done"} /\ LocatedSid(r) = Null) =>
            /\ srv[r].fetch = <<>>
            /\ srv[r].sends = <<[success |-> FALSE, data |-> JNull,
                                 error |-> CookieMissingMsg]>>
            /\ srv[r].port = "done" =>
                  req[r].st = "rejected" /\ req[r].error = CookieMissingMsg

\* C11's case: a cookie is in the jar but every cookie-store call was
\* rejected, and the caller has been given the error
C11_Witness ==
    \E r \in ReqIds :
        /\ srv[r].pc = "done" /\ srv[r].port = "done"
        /\ cookieJar # <<>> /\ srv[r].fail[1]
        /\ LocatedSid(r) = Null
        /\ req[r].st = "rejected" /\ req[r].error = CookieMissingMsg

\* the one sendResponse of a handler run whose fetch got a response
Answered(r) == srv[r].pc = "done" /\ srv[r].resp # NoResp /\ Len(srv[r].sends) = 1

\* two messages overlap when they have a piece of text in common
Overlap(m1, m2) == \E i \in 1..Len(m1), j \in 1..Len(m2) : m1[i] = m2[j]

\* C12: a 401 always yields the fixed "Unauthorized..." message whatever the
\* body; a response of any other status whose message is the "HTTP <status>"
\* fallback yields one that neither equals nor overlaps it, and "HTTP 401"
\* is never produced.
C12_UnauthorizedDistinct ==
    \A r \in ReqIds :
        Answered(r) =>
            LET resp == srv[r].resp
                sent == srv[r].sends[1]
            IN  /\ resp.status = 401 =>
                      ~sent.success /\ sent.error = UnauthorizedMsg
                /\ (resp.status # 401 /\ ~sent.success
                       /\ sent.error = HttpStatusMsg(resp.status)) =>
                      ~Overlap(sent.error, UnauthorizedMsg)
                /\ sent.error # HttpStatusMsg(401)

\* C12's case: a 401 whose body is an error array with messages of its own
C12_Witness ==
    \E r \in ReqIds :
        /\ Answered(r)
        /\ srv[r].resp.status = 401
        /\ srv[r].resp.body.kind = "array" /\ Len(srv[r].resp.body.messages) = 2
        /\ req[r].st = "rejected" /\ req[r].error = UnauthorizedMsg

\* the message the error table gives for a body: the object's message, the
\* messages of the array's elements joined, "HTTP <status>" when the body is
\* not JSON or holds no message
HasText(m) == m # <<>>
TableMessage(resp) ==
    LET texts == SelectSeq(resp.body.messages, HasText)
    IN  IF ~resp.json \/ texts = <<>> THEN HttpStatusMsg(resp.status)
        ELSE IF resp.body.kind = "array" THEN JoinMessages(texts)
        ELSE texts[1]

\* a message a person can read: it has text other than separators
Readable(m) == \E i \in 1..Len(m) : m[i] # ", "

\* C13: for a response that is neither 2xx nor 401 the message is the one of
\* the error table, and the message the caller gets is a non-empty readable
\* string.
C13_ErrorTableMessage ==
    \A r \in ReqIds :
        (Answered(r) /\ srv[r].resp.status # 401
            /\ ~(srv[r].resp.status >= 200 /\ srv[r].resp.status <= 299)) =>
            /\ srv[r].sends[1].error = TableMessage(srv[r].resp)
            /\ req[r].st = "rejected" => Readable(req[r].error)

\* C14: a 204 makes the handler return null without reading the body: the
\* listener answers {success: true, data: null} and request() resolves with
\* null, not with an object and not with an error.
C14_NoContentIsNull ==
    \A r \in ReqIds :
        (Answered(r) /\ srv[r].resp.status = 204) =>
            /\ srv[r].sends[1] = [success |-> TRUE, data |-> JNull, error |-> <<>>]
            /\ srv[r].port = "done" =>
                  /\ req[r].st = "resolved"
                  /\ req[r].data = JNull /\ req[r].data # JObject
                  /\ req[r].error = <<>>

\* C14's case: the caller of a request answered 204 holds null
C14_Witness ==
    \E r \in ReqIds :
        /\ Answered(r) /\ srv[r].resp.status = 204 /\ ~srv[r].resp.json
        /\ srv[r].port = "done"
        /\ req[r].st = "resolved" /\ req[r].data = JNull

\* C15: request() resolves with the relayed data exactly when the listener
\* answered {success: true}, a null payload included; otherwise it rejects
\* with an Error whose message is exactly the answer's error, the empty
\* message included.
C15_RejectsWithChannelMessage ==
    \A r \in ReqIds :
        (srv[r].port = "done" /\ Len(srv[r].sends) = 1) =>
            LET sent == srv[r].sends[1]
            IN  /\ req[r].st = "resolved" <=> sent.success
                /\ sent.success => req[r].data = sent.data
                /\ ~sent.success =>
                      req[r].st = "rejected" /\ req[r].error = sent.error

-----------------------------------------------------------------------------
(* SalesforceAPI claims *)

\* an absolute URL begins with a scheme
IsAbsolute(path) == Len(path) > 0 /\ path[1] = Scheme

\* C16: request(path) sends an absolute URL unchanged and every relative
\* path as <orgOrigin>/services/data/<apiVersion> followed by the path; the
\* method is GET when none is given.
C16_RequestUrl ==
    \A r \in ReqIds :
        req[r].st # "free" =>
            /\ IsAbsolute(req[r].path) => req[r].url = req[r].path
            /\ ~IsAbsolute(req[r].path) =>
                  req[r].url = orgOrigin \o <<ApiBase>> \o req[r].path
            /\ req[r].method = "GET"

\* "//" after the hostname: a "/" directly followed by a path segment
DoubleSlash(url) == \E i \in 1..(Len(url) - 1) : url[i] = Slash

\* C17: the orgOrigin of a constructed SalesforceAPI has the https scheme and
\* no trailing slash, so baseUrl has no "//" after the hostname.
C17_OrgOriginNoTrailingSlash ==
    /\ orgOrigin[1] = Scheme
    /\ ~EndsWith(orgOrigin, Slash)
    /\ ~DoubleSlash(baseUrl(orgOrigin))

\* the label of the lookup table
TableLabel(type, length, precision, scale) ==
    IF type = "string" /\ TruthyNumber(length)
    THEN <<"Text(", ToString(length[1]), ")">>
    ELSE IF type = "double" /\ TruthyNumber(precision) /\ scale # NoNumber
    THEN <<"Number(", ToString(precision[1]), ",", ToString(scale[1]), ")">>
    ELSE IF type \in KnownTypes
    THEN formatFieldType(type, NoNumber, NoNumber, NoNumber)
    ELSE IF TruthyString(type) THEN <<type>> ELSE <<"Unknown">>

\* C18: formatFieldType gives the label of the lookup table, and the label
\* never contains "undefined".
C18_FieldTypeLabel ==
    fmt.pc = "done" =>
        /\ fmt.out = TableLabel(fmt.type, fmt.length, fmt.precision, fmt.scale)
        /\ \A i \in 1..Len(fmt.out) : fmt.out[i] # "undefined"

-----------------------------------------------------------------------------
(* Tool page claims *)

\* C19: a request of a batch that fails does not abort the batch: every
\* request of the batch is issued, the results of the requests that did not
\* fail are shown, and only the failed ones are left out.
C19_BatchContinues ==
    scan.pc = "done" =>
        /\ scan.issued = 1..Len(BatchItems(scan.tool))
        /\ scan.shown = "results"
        /\ \A k \in 1..Len(BatchItems(scan.tool)) :
              k \notin scan.fails <=> (k <= Len(scan.lines) /\ scan.lines[k] = "data")

-----------------------------------------------------------------------------
\* C23: a tool page opened without an org parameter, or with an empty one,
\* gets no SalesforceAPI, shows the error, registers no handler and sends no
\* relay request, whatever the user does on the tab.
C23_NoOrgNoRequests ==
    (tab.pc \notin {"closed", "load"}
        /\ (~tab.org.present \/ tab.org.value = <<>>)) =>
        /\ ~tab.api.made
        /\ tab.pc = "blocked" /\ tab.shown = "error"
        /\ tab.handlers = {}
        /\ tab.sent = <<>>

\* C23's case: the page has an empty org parameter and the user has tried
\* the controls
C23_Witness ==
    /\ tab.org.present /\ tab.org.value = <<>>
    /\ tab.pc = "blocked"
    /\ Len(tab.events) >= 2
    /\ \E i \in 1..Len(tab.events) : RequestOf(tab.events[i]) # <<>>

-----------------------------------------------------------------------------

\* the lower-cased API names of a describe result
KeysOf(fields) == {toLowerCase(fields[i].name) : i \in 1..Len(fields)}
\* the field of a describe result with a lower-cased API name
FieldOf(fields, key) ==
    fields[CHOOSE i \in 1..Len(fields) : toLowerCase(fields[i].name) = key]

-----------------------------------------------------------------------------

\* some page of the chain has no nextRecordsUrl
ChainFinite == \E k \in 1..Len(chain) : chain[k].next = <<>>

\* C25: when every relay request settles and the chain of pages is finite,
\* a call of query()/toolingQuery() returns or rejects in the end; it returns
\* only at a page without a nextRecordsUrl, however many pages came before,
\* so on an endless chain it never returns.
C25_QueryTerminates ==
    /\ (ChainFinite /\ query.pc = "await") ~> (query.pc \in {"done", "rejected"})
    /\ [][(query.pc = "await" /\ query'.pc = "done") =>
              (req[query.req].st = "resolved" /\ req[query.req].data.next = <<>>)]_vars
    /\ [](~ChainFinite => query.pc # "done")

\* C25's case: the loop has consumed a chain of several pages to its last
\* page and returned
C25_Witness ==
    /\ ChainFinite /\ Len(chain) >= 2
    /\ query.pc = "done"
    /\ query.issued = Len(chain)

\* the call is still running on an endless chain after MaxPages pages
C25_StillRunning ==
    ~ChainFinite /\ query.pc = "await" /\ query.issued = MaxPages + 1

-----------------------------------------------------------------------------

\* a nextRecordsUrl that is a path of the org, not an absolute URL
IsRelativeNext(next) == next # <<>> /\ next[1] = ApiBase
\* how often the API base prefix stands in a URL
ApiBaseCount(url) == Cardinality({i \in 1..Len(url) : url[i] = ApiBase})

\* C26: the continuation request for a nextRecordsUrl that is a path starting
\* with /services/data/<apiVersion> targets the org origin followed by that
\* path; the API base prefix is not put in front of it a second time.
C26_RelativeNextNotPrefixedTwice ==
    \A r \in ReqIds :
        (req[r].st # "free" /\ req[r].page >= 2
            /\ IsRelativeNext(chain[req[r].page - 1].next)) =>
            /\ ApiBaseCount(req[r].url) = 1
            /\ req[r].url = orgOrigin \o chain[req[r].page - 1].next

-----------------------------------------------------------------------------

\* the call has rejected although its last request ended in Success: the
\* error is not one of request() but the TypeError of reading `records`
RejectedOnSuccess == query.pc = "rejected" /\ query.error = NullRecordsMsg

\* C27: query/toolingQuery rejects only when a request of it fails; a Success
\* with a null payload (HTTP 204), on the first or on a later page, counts
\* for zero records and does not make the call reject.
C27_NullPayloadNoRecords == ~RejectedOnSuccess

-----------------------------------------------------------------------------

\* C28: in the Twin Field Explorer at most one scan is in flight; the
\* run-scan control is disabled while a scan awaits its describes and enabled
\* again after every scan, failed or not; once a scan has been started the
\* export control is enabled only when the most recent scan succeeded.
C28_OneScanInFlight ==
    ctl.pc = "ready" =>
        /\ Len(ctl.scans) <= 1
        /\ ctl.scans # <<>> => ctl.runDisabled
        /\ ctl.scans = <<>> => ~ctl.runDisabled
        /\ (ctl.last # "none" /\ ~ctl.exportDisabled) =>
               (ctl.last = "ok" /\ ctl.scans = <<>>)
        /\ ctl.last = "ok" => ~ctl.exportDisabled

\* C28's case: a scan that succeeded was followed by one that failed at its
\* second describe, on a page whose export control was enabled at first
C28_Witness ==
    /\ ctl.pc = "ready"
    /\ \E i \in 1..Len(ctl.log) : ctl.log[i] = "ok"
    /\ ctl.log # <<>> /\ ctl.log[Len(ctl.log)] = "failed"
    /\ ctl.scans = <<>> /\ ~ctl.runDisabled /\ ctl.exportDisabled

-----------------------------------------------------------------------------

\* C29: once every build of the SKU Quote Explorer has completed, the quote
\* lines displayed are those of the build started last, for the products
\* selected when it was started; an earlier build that completes later does
\* not overwrite them.
C29_LatestBuildShown ==
    (build.pc = "ready" /\ build.starts # <<>> /\ build.flights = <<>>) =>
        /\ build.quoteLines.of = Len(build.starts)
        /\ build.quoteLines.products = build.starts[Len(build.starts)]

\* the lines of an earlier build are displayed after all builds completed,
\* although every pricebook query succeeded
C29_Overwritten ==
    /\ build.pc = "ready" /\ build.flights = <<>>
    /\ Len(build.starts) = 2
    /\ build.quoteLines = [of |-> 1, products |-> build.starts[1]]

-----------------------------------------------------------------------------

\* an edit leaves the other lines, and the other fields of its line, as
\* they were
OnlyEditedFieldChanges ==
    quote'.edits = quote.edits + 1 =>
        /\ Len(quote'.lines) = Len(quote.lines)
        /\ \A i \in 1..Len(quote.lines) :
              /\ i # quote'.last.idx => quote'.lines[i] = quote.lines[i]
              /\ quote'.lines[i].productId = quote.lines[i].productId
              /\ quote'.lines[i].listPrice = quote.lines[i].listPrice
              /\ quote'.lines[i].unitPrice = quote.lines[i].unitPrice
              /\ quote'.last.field # "quantity" => quote'.lines[i].quantity = quote.lines[i].quantity
              /\ quote'.last.field # "discount" => quote'.lines[i].discount = quote.lines[i].discount

\* C30: after any edits of quantity and discount, with empty, non-numeric,
\* negative or too large inputs among them, every quote line has an integer
\* quantity of at least 1 and a discount between 0 and 100; an edit changes
\* only the edited field of the edited line; with no negative list price the
\* net total is at most the list total.
C30_LinesStayValid ==
    /\ [](quote.pc = "ready" =>
            /\ \A i \in 1..Len(quote.lines) :
                  /\ quote.lines[i].quantity % 10 = 0
                  /\ quote.lines[i].quantity >= 10
                  /\ quote.lines[i].discount >= 0
                  /\ quote.lines[i].discount <= 1000
            /\ (\A i \in 1..Len(quote.lines) : quote.lines[i].listPrice >= 0) =>
                  calcNetTotal(quote.lines) <= calcTotal(quote.lines))
    /\ [][OnlyEditedFieldChanges]_vars

\* C30's case: two priced lines, one with a quantity rounded up from 2.5
\* and one with a discount cut down to 100, and a last edit with a text that
\* is no number
C30_Witness ==
    /\ quote.pc = "ready" /\ Len(quote.lines) = 2
    /\ quote.edits = MaxEdits
    /\ quote.last.value = "abc"
    /\ \E i \in 1..2 : quote.lines[i].quantity = 30 /\ quote.lines[i].listPrice > 0
    /\ \E i \in 1..2 : quote.lines[i].discount = 1000

-----------------------------------------------------------------------------

(* Concurrent requests *)

\* the requests a step touches, on the page side or on the worker side
Touched == {r \in ReqIds : req'[r] # req[r] \/ srv'[r] # srv[r]}

\* C22: requests in flight together are independent: the fetch of a request
\* is made for its own URL, its promise is settled with the answer computed
\* from the response to its own fetch, and a step of one request (sent,
\* handled, answered, settled) leaves every other request as it was.
C22_RequestsIndependent ==
    /\ [](\A r \in ReqIds :
             /\ \A i \in 1..Len(srv[r].fetch) :
                   srv[r].fetch[i].url = bgNormalizeToMyDomain(req[r].url)
             /\ Answered(r) =>
                   srv[r].sends = ListenerReply(HandlerFinish(srv[r].resp))
             /\ (srv[r].port = "done" /\ srv[r].sends # <<>>) =>
                   LET settled == RequestCallback(<<>>, srv[r].sends)
                   IN  /\ req[r].data = settled[1].data
                       /\ req[r].error = settled[1].error)
    /\ [][worker' = worker => Cardinality(Touched) <= 1]_vars

\* C22's case: two requests for different hosts were in flight together and
\* ended differently, one resolved and one rejected
C22_Witness ==
    \E r, q \in ReqIds :
        /\ req[r].url # req[q].url
        /\ srv[r].port = "done" /\ req[r].st = "resolved"
        /\ srv[q].port = "done" /\ req[q].st = "rejected"
        /\ Len(srv[r].fetch) = 1 /\ Len(srv[q].fetch) = 1


=============================================================================
